---- MODULE Spec2Model ----
(***************************************************************************)
(* A model of the users / courses / projects record service (app/main.py,  *)
(* app/schemas.py).  The relational store is modelled as three tables with  *)
(* their declared constraints (unique columns, the owner_id foreign key    *)
(* with cascading delete); every request runs in a slot that holds its     *)
(* session: the request is received and validated against its schema, the  *)
(* handler then runs its database steps (get, commit) one at a time, so    *)
(* that the steps of different requests interleave.                        *)
(***************************************************************************)
EXTENDS Integers, Sequences, FiniteSets, TLC

\* ------------------------------------------------------------------ bounds
MaxUserId == 2
MaxProjectId == 2
MaxCourseId == 11
NumSlots == 2
MaxLimit == 3
MaxOffset == 2

\* ------------------------------------------------- constants of schemas.py
NameMinLen == 1
NameMaxLen == 100
StudentIdDigits == 7
CodeMinLen == 1
CodeMaxLen == 32
CourseNameMinLen == 1
CourseNameMaxLen == 255
ProjectNameMinLen == 1
ProjectNameMaxLen == 255
DescMaxLen == 2000
AgeMin == 0
AgeMax == 150
CreditsMin == 1
CreditsMax == 120
DefaultLimit == 10
DefaultOffset == 0

\* --------------------------------------------------------- optional values
None == << >>
Some(v) == << v >>
IsNone(o) == Len(o) = 0
Val(o) == o[1]

RECURSIVE Rep(_, _)
Rep(s, n) ==
    IF n = 0 THEN ""
    ELSE LET half == Rep(s, n \div 2)
         IN  IF n % 2 = 0 THEN half \o half ELSE half \o half \o s

Min(a, b) == IF a < b THEN a ELSE b

\* A function restricted to the keys in S.
Restrict(f, S) == [k \in S |-> f[k]]

\* f overwritten by g on g's keys.
Merge(f, g) == [k \in DOMAIN f \cup DOMAIN g |-> IF k \in DOMAIN g THEN g[k] ELSE f[k]]

\* ------------------------------------------------------------ field values
Digits == {"0", "1", "2", "3", "4", "5", "6", "7", "8", "9"}
Sid1 == <<"S", "1", "2", "3", "4", "5", "6", "7">>
Sid2 == <<"S", "7", "6", "5", "4", "3", "2", "1">>
SidShort == <<"S", "1", "2", "3">>
SidNoS == <<"X", "1", "2", "3", "4", "5", "6", "7">>

Sid3 == <<"S", "0", "0", "0", "0", "0", "0", "3">>

GoodNames == {"Ada", "Bob"}
BadNames == {"", Rep("a", NameMaxLen + 1)}
GoodEmails == {"ada@x.com", "bob@x.com"}
GoodAges == {30}
BadAges == {AgeMin - 1, AgeMax + 1}
GoodSids == {Sid1, Sid2}
BadSids == {SidShort, SidNoS}
GoodProjectNames == {"P", "Q"}
BadProjectNames == {"", Rep("p", ProjectNameMaxLen + 1)}

\* --------------------------------------------------------------- schemas
\* StudentIdStr: pattern ^S\d{7}$
MatchesStudentId(s) ==
    /\ Len(s) = 1 + StudentIdDigits
    /\ s[1] = "S"
    /\ \A i \in 2..Len(s) : s[i] \in Digits

ValidName(s) == Len(s) >= NameMinLen /\ Len(s) <= NameMaxLen
ValidAge(a) == a >= AgeMin /\ a <= AgeMax
ValidProjectName(s) == Len(s) >= ProjectNameMinLen /\ Len(s) <= ProjectNameMaxLen
ValidDesc(o) == IsNone(o) \/ Len(Val(o)) <= DescMaxLen
ValidCode(s) == Len(s) >= CodeMinLen /\ Len(s) <= CodeMaxLen
ValidCourseName(s) == Len(s) >= CourseNameMinLen /\ Len(s) <= CourseNameMaxLen
ValidCredits(c) == c >= CreditsMin /\ c <= CreditsMax

UserFields == {"name", "email", "age", "student_id"}
ProjectFields == {"name", "description", "owner_id"}

\* class UserCreate: every field required and constrained.
ValidUserCreate(b) ==
    /\ DOMAIN b = UserFields
    /\ ValidName(b.name)
    /\ ValidAge(b.age)
    /\ MatchesStudentId(b.student_id)

\* class UserUpdate: four Optional fields of the bare types str and int.
ValidUserUpdate(b) == DOMAIN b \subseteq UserFields

\* class ProjectCreate: name and owner_id required, description optional.
ValidProjectCreate(b) ==
    /\ {"name", "owner_id"} \subseteq DOMAIN b
    /\ DOMAIN b \subseteq ProjectFields
    /\ ValidProjectName(b.name)
    /\ ("description" \in DOMAIN b => ValidDesc(b.description))

\* class ProjectCreateForUser: name required, description optional.
ValidProjectCreateForUser(b) ==
    /\ "name" \in DOMAIN b
    /\ DOMAIN b \subseteq {"name", "description"}
    /\ ValidProjectName(b.name)
    /\ ("description" \in DOMAIN b => ValidDesc(b.description))

\* class ProjectUpdate: name a bare Optional[str], description Optional[DescStr].
ValidProjectUpdate(b) ==
    /\ DOMAIN b \subseteq ProjectFields
    /\ (("description" \in DOMAIN b) => ValidDesc(b.description))

\* class CourseCreate
ValidCourseCreate(b) ==
    /\ ValidCode(b.code)
    /\ ValidCourseName(b.name)
    /\ ValidCredits(b.credits)

\* The dump with exclude_unset: an omitted description is left out.
DumpProjectExcludeUnset(b) == b

\* payload.model_dump() of a ProjectCreate / ProjectCreateForUser: an omitted
\* description is dumped as its default, None.
DumpProject(b) ==
    IF "description" \in DOMAIN b THEN b ELSE Merge(b, [description |-> None])

\* payload.model_dump(exclude_unset=True, exclude_none=True) of a UserUpdate:
\* the fields that were sent with a value other than null.
UserUpdates(b) ==
    LET keep == {k \in DOMAIN b : ~IsNone(b[k])}
    IN  [k \in keep |-> Val(b[k])]

\* The dump of a ProjectUpdate without exclude_none: a null description is kept.
ProjectUpdatesKeepNull(b) ==
    LET keep == {k \in DOMAIN b : k = "description" \/ ~IsNone(b[k])}
    IN  [k \in keep |-> IF k = "description" THEN b[k] ELSE Val(b[k])]

\* The same dump of a ProjectUpdate; the description column keeps its value
\* as an optional.
ProjectUpdates(b) ==
    LET keep == {k \in DOMAIN b : ~IsNone(b[k])}
    IN  [k \in keep |-> IF k = "description" THEN b[k] ELSE Val(b[k])]

\* ------------------------------------------------------------------- state
VARIABLES
    users,          \* table users: id -> [name, email, age, student_id]
    courses,        \* table courses: id -> [code, name, credits]
    projects,       \* table projects: id -> [name, description, owner_id]
    nextUserId,     \* the next id the store generates for each table
    nextCourseId,
    nextProjectId,
    slots           \* the requests in flight, one session each

store == <<users, courses, projects, nextUserId, nextCourseId, nextProjectId>>
vars == <<users, courses, projects, nextUserId, nextCourseId, nextProjectId, slots>>

Slots == 1..NumSlots

\* The two clients whose requests race in the interleaving specifications.
Racers == {1, 2}

\* A slot with no request: its session is closed.
Ready == [pc |-> "ready", op |-> "none", id |-> 0, body |-> << >>,
          status |-> 0, out |-> << >>, snap |-> << >>]

EmptyTable == [k \in {} |-> 0]

\* The row as the response models (UserRead, CourseRead, ProjectRead) show it.
Read(table, i) == Merge(table[i], [id |-> i])

\* -------------------------------------------- the store's declared constraints
\* users.email and users.student_id are unique columns.
UsersUnique(u) ==
    \A i, j \in DOMAIN u :
        i # j => u[i].email # u[j].email /\ u[i].student_id # u[j].student_id

\* courses.code is a unique column.
CoursesUnique(c) ==
    \A i, j \in DOMAIN c : i # j => c[i].code # c[j].code

\* projects.owner_id is a foreign key to users.id.
ForeignKeysOk(u, p) ==
    \A k \in DOMAIN p : p[k].owner_id \in DOMAIN u

\* What a commit must satisfy; the store raises IntegrityError otherwise.
IntegrityOk(u, c, p) ==
    UsersUnique(u) /\ CoursesUnique(c) /\ ForeignKeysOk(u, p)

\* ON DELETE CASCADE of projects.owner_id: the projects that outlive user i.
CascadeDelete(p, i) ==
    Restrict(p, {k \in DOMAIN p : p[k].owner_id # i})

\* The table without row i.
DeleteRow(t, i) == Restrict(t, DOMAIN t \ {i})

\* The UPDATE a flush emits for a loaded object: the attributes whose new
\* value differs from the loaded one.
Changed(snap, updates) ==
    Restrict(updates, {k \in DOMAIN updates : updates[k] # snap[k]})

\* ------------------------------------------------------------ request slots
\* get_db's finally: the session is closed once the response is out.
Release(r) ==
    /\ slots[r].pc = "done"
    /\ slots' = [slots EXCEPT ![r] = Ready]
    /\ UNCHANGED store

\* The handler's return or raised HTTPException.
Finish(r, status, out) ==
    slots' = [slots EXCEPT ![r] =
                 [@ EXCEPT !.pc = "done", !.status = status, !.out = out,
                           !.snap = << >>]]

\* The request body against the schema the route declares.
Validate(op, b) ==
    CASE op = "add_user" -> ValidUserCreate(b)
      [] op = "put_user" -> ValidUserCreate(b)
      [] op = "patch_user" -> ValidUserUpdate(b)
      [] op = "create_project" -> ValidProjectCreate(b)
      [] op = "put_project" -> ValidProjectCreate(b)
      [] op = "create_user_project" -> ValidProjectCreateForUser(b)
      [] op = "patch_project" -> ValidProjectUpdate(b)
      [] op = "create_course" -> ValidCourseCreate(b)
      [] OTHER -> TRUE

\* A request arrives: get_db opens its session and the body is validated
\* before the handler runs; an invalid body is answered 422 at once.
Request(r, op, ids, bodies) ==
    /\ slots[r].pc = "ready"
    /\ \E i \in ids, b \in bodies :
          slots' = [slots EXCEPT ![r] =
                       [pc |-> IF Validate(op, b) THEN "handling" ELSE "done",
                        op |-> op, id |-> i, body |-> b,
                        status |-> IF Validate(op, b) THEN 0 ELSE 422,
                        out |-> << >>, snap |-> << >>]]
    /\ UNCHANGED store

\* The returned row against the route's response_model (UserRead,
\* ProjectRead, CourseRead): the constrained fields are validated again.
ResponseOk(op, out) ==
    CASE op \in {"add_user", "patch_user", "put_user"} ->
            ValidName(out.name) /\ ValidAge(out.age) /\ MatchesStudentId(out.student_id)
      [] op \in {"create_project", "create_user_project", "patch_project", "put_project"} ->
            ValidProjectName(out.name) /\ ValidDesc(out.description)
      [] OTHER -> TRUE

\* try: db.commit() / except IntegrityError: db.rollback(); raise 409.
\* u, c, p are the tables as the pending changes would leave them.  A row
\* that was committed but fails the response model is answered 500.
CommitOrRollback(r, u, c, p, status, out) ==
    IF IntegrityOk(u, c, p)
    THEN /\ users' = u
         /\ courses' = c
         /\ projects' = p
         /\ IF ResponseOk(slots[r].op, out)
            THEN Finish(r, status, out)
            ELSE Finish(r, 500, << >>)
    ELSE /\ UNCHANGED <<users, courses, projects>>
         /\ Finish(r, 409, << >>)

\* The head of a handler without the 404 check.
GetUnchecked(r, table, i) ==
    /\ slots' = [slots EXCEPT ![r] = [@ EXCEPT !.pc = "loaded"]]
    /\ UNCHANGED store

\* db.get(Table, id) at the head of a handler: 404 when the row is absent,
\* else the row is loaded into the session.
GetOr404(r, table, i) ==
    /\ IF i \in DOMAIN table
       THEN slots' = [slots EXCEPT ![r] = [@ EXCEPT !.pc = "loaded", !.snap = table[i]]]
       ELSE Finish(r, 404, << >>)
    /\ UNCHANGED store

Handling(r, op) == slots[r].pc = "handling" /\ slots[r].op = op
Loaded(r, op) == slots[r].pc = "loaded" /\ slots[r].op = op

\* -------------------------------------------------------------------- users
\* add_user with the IntegrityError swallowed: the handler answers 201.
add_user_swallow(r) ==
    /\ Handling(r, "add_user")
    /\ nextUserId <= MaxUserId
    /\ LET u == Merge(users, [i \in {nextUserId} |-> slots[r].body])
       IN  IF IntegrityOk(u, courses, projects)
           THEN /\ users' = u
                /\ nextUserId' = nextUserId + 1
                /\ Finish(r, 201, Read(u, nextUserId))
           ELSE /\ UNCHANGED <<users, nextUserId>>
                /\ Finish(r, 201, Read(u, nextUserId))
    /\ UNCHANGED <<courses, projects, nextCourseId, nextProjectId>>

\* POST /api/users
add_user(r) ==
    /\ Handling(r, "add_user")
    /\ nextUserId <= MaxUserId
    /\ LET u == Merge(users, [i \in {nextUserId} |-> slots[r].body])
       IN  /\ CommitOrRollback(r, u, courses, projects, 201, Read(u, nextUserId))
           /\ nextUserId' = IF IntegrityOk(u, courses, projects)
                            THEN nextUserId + 1 ELSE nextUserId
    /\ UNCHANGED <<nextCourseId, nextProjectId>>

\* The update with a commit after every assignment: on a conflict the
\* assignments that did not conflict stay.
UpdateUserCommitPerField(r, updates) ==
    LET i == slots[r].id IN
    /\ i \in DOMAIN users
    /\ LET row == Merge(users[i], Changed(slots[r].snap, updates))
           u == [users EXCEPT ![i] = row]
           part == [users EXCEPT ![i] =
                       Merge(users[i], Restrict(updates, DOMAIN updates \ {"email", "student_id"}))]
       IN  IF IntegrityOk(u, courses, projects)
           THEN users' = u /\ Finish(r, 200, Read(u, i))
           ELSE users' = part /\ Finish(r, 409, << >>)
    /\ UNCHANGED <<courses, projects, nextUserId, nextCourseId, nextProjectId>>

\* The update with the IntegrityError swallowed: the handler answers 200.
UpdateUserCommitSwallow(r, updates) ==
    LET i == slots[r].id IN
    /\ i \in DOMAIN users
    /\ LET row == Merge(users[i], Changed(slots[r].snap, updates))
           u == [users EXCEPT ![i] = row]
       IN  IF IntegrityOk(u, courses, projects)
           THEN users' = u /\ Finish(r, 200, Read(u, i))
           ELSE users' = users /\ Finish(r, 200, Read(users, i))
    /\ UNCHANGED <<courses, projects, nextUserId, nextCourseId, nextProjectId>>

\* The commit of an update of users[i] to the values in updates: the row is
\* gone (another request deleted it) -> the flush or the refresh fails, 500.
UpdateUserCommit(r, updates) ==
    LET i == slots[r].id IN
    /\ IF i \in DOMAIN users
       THEN LET row == Merge(users[i], Changed(slots[r].snap, updates))
                u == [users EXCEPT ![i] = row]
            IN  CommitOrRollback(r, u, courses, projects, 200, Read(u, i))
       ELSE /\ UNCHANGED <<users, courses, projects>>
            /\ Finish(r, 500, << >>)
    /\ UNCHANGED <<nextUserId, nextCourseId, nextProjectId>>

\* PATCH /api/users/{user_id}
patch_user_get(r) ==
    /\ Handling(r, "patch_user")
    /\ GetOr404(r, users, slots[r].id)

patch_user_commit(r) ==
    /\ Loaded(r, "patch_user")
    /\ UpdateUserCommit(r, UserUpdates(slots[r].body))

\* PUT /api/users/{user_id}
put_user_get(r) ==
    /\ Handling(r, "put_user")
    /\ GetOr404(r, users, slots[r].id)

put_user_commit(r) ==
    /\ Loaded(r, "put_user")
    /\ UpdateUserCommit(r, slots[r].body)

\* DELETE /api/users/{user_id}
delete_user_get(r) ==
    /\ Handling(r, "delete_user")
    /\ GetOr404(r, users, slots[r].id)

\* A delete that leaves the user's projects in place.
delete_user_commit_no_cascade(r) ==
    LET i == slots[r].id IN
    /\ Loaded(r, "delete_user")
    /\ i \in DOMAIN users
    /\ users' = DeleteRow(users, i)
    /\ Finish(r, 204, << >>)
    /\ UNCHANGED <<projects, courses, nextUserId, nextCourseId, nextProjectId>>

\* db.delete(user); db.commit().  When another request deleted the row in
\* between, the DELETE matches no row: nothing changes, and the flush either
\* only warns (204) or fails (500).
delete_user_commit(r) ==
    LET i == slots[r].id IN
    /\ Loaded(r, "delete_user")
    /\ IF i \in DOMAIN users
       THEN /\ users' = DeleteRow(users, i)
            /\ projects' = CascadeDelete(projects, i)
            /\ Finish(r, 204, << >>)
       ELSE /\ UNCHANGED <<users, projects>>
            /\ \E st \in {204, 500} : Finish(r, st, << >>)
    /\ UNCHANGED <<courses, nextUserId, nextCourseId, nextProjectId>>

\* ------------------------------------------------------------------ courses
\* POST /api/courses
create_course(r) ==
    /\ Handling(r, "create_course")
    /\ nextCourseId <= MaxCourseId
    /\ LET c == Merge(courses, [i \in {nextCourseId} |-> slots[r].body])
       IN  /\ CommitOrRollback(r, users, c, projects, 201, Read(c, nextCourseId))
           /\ nextCourseId' = IF IntegrityOk(users, c, projects)
                              THEN nextCourseId + 1 ELSE nextCourseId
    /\ UNCHANGED <<nextUserId, nextProjectId>>

\* The ids of a table in ascending order (ORDER BY id).
RECURSIVE OrderById(_)
OrderById(S) ==
    IF S = {} THEN << >>
    ELSE LET m == CHOOSE x \in S : \A y \in S : x <= y
         IN  <<m>> \o OrderById(S \ {m})

\* Page with the offset applied after the limit.
PageOffsetLate(seq, limit, offset) ==
    SubSeq(seq, offset + 1, Min(Len(seq), limit))

\* LIMIT limit OFFSET offset of a sequence.
Page(seq, limit, offset) ==
    SubSeq(seq, offset + 1, Min(Len(seq), offset + limit))

\* select(CourseDB).order_by(CourseDB.id).limit(limit).offset(offset)
SelectCourses(limit, offset) ==
    LET ids == Page(OrderById(DOMAIN courses), limit, offset)
    IN  [k \in 1..Len(ids) |-> Read(courses, ids[k])]

\* The query parameters of GET /api/courses with their defaults.
LimitOf(q) == IF "limit" \in DOMAIN q THEN q.limit ELSE DefaultLimit
OffsetOf(q) == IF "offset" \in DOMAIN q THEN q.offset ELSE DefaultOffset

\* GET /api/courses
list_courses(r) ==
    /\ Handling(r, "list_courses")
    /\ Finish(r, 200, SelectCourses(LimitOf(slots[r].body), OffsetOf(slots[r].body)))
    /\ UNCHANGED store

\* ----------------------------------------------------------------- projects
\* The commit of a new project row.
InsertProject(r, row) ==
    /\ nextProjectId <= MaxProjectId
    /\ LET p == Merge(projects, [i \in {nextProjectId} |-> row])
       IN  /\ CommitOrRollback(r, users, courses, p, 201, Read(p, nextProjectId))
           /\ nextProjectId' = IF IntegrityOk(users, courses, p)
                               THEN nextProjectId + 1 ELSE nextProjectId
    /\ UNCHANGED <<nextUserId, nextCourseId>>

\* POST /api/projects
create_project_get(r) ==
    /\ Handling(r, "create_project")
    /\ GetOr404(r, users, slots[r].body.owner_id)

create_project_commit(r) ==
    /\ Loaded(r, "create_project")
    /\ InsertProject(r, [name |-> slots[r].body.name,
                         description |-> DumpProject(slots[r].body).description,
                         owner_id |-> slots[r].body.owner_id])

\* POST /api/users/{user_id}/projects
create_user_project_get(r) ==
    /\ Handling(r, "create_user_project")
    /\ GetOr404(r, users, slots[r].id)

create_user_project_commit(r) ==
    /\ Loaded(r, "create_user_project")
    /\ InsertProject(r, [name |-> slots[r].body.name,
                         description |-> DumpProject(slots[r].body).description,
                         owner_id |-> slots[r].id])

\* The commit of an update of projects[i].
UpdateProjectCommit(r, updates) ==
    LET i == slots[r].id IN
    /\ IF i \in DOMAIN projects
       THEN LET row == Merge(projects[i], Changed(slots[r].snap, updates))
                p == [projects EXCEPT ![i] = row]
            IN  CommitOrRollback(r, users, courses, p, 200, Read(p, i))
       ELSE /\ UNCHANGED <<users, courses, projects>>
            /\ Finish(r, 500, << >>)
    /\ UNCHANGED <<nextUserId, nextCourseId, nextProjectId>>

\* PATCH /api/projects/{project_id}
patch_project_get(r) ==
    /\ Handling(r, "patch_project")
    /\ GetOr404(r, projects, slots[r].id)

patch_project_commit(r) ==
    /\ Loaded(r, "patch_project")
    /\ UpdateProjectCommit(r, ProjectUpdates(slots[r].body))

\* PUT /api/projects/{project_id}
put_project_get(r) ==
    /\ Handling(r, "put_project")
    /\ GetOr404(r, projects, slots[r].id)

put_project_commit(r) ==
    /\ Loaded(r, "put_project")
    /\ UpdateProjectCommit(r, DumpProject(slots[r].body))

\* ------------------------------------------------------------------- inputs
UserIds == 1..MaxUserId
ProjectIds == 1..MaxProjectId

\* Functions from any subset of the keys of F to the values F allows per key.
RECURSIVE Extend(_, _, _)
Extend(F, K, acc) ==
    IF K = {} THEN acc
    ELSE LET k == CHOOSE x \in K : TRUE
         IN  Extend(F, K \ {k},
                    acc \cup {Merge(b, [x \in {k} |-> v]) : b \in acc, v \in F[k]})

PartialOf(F) == Extend(F, DOMAIN F, {[x \in {} |-> 0]})

Optional(V) == {None} \cup {Some(v) : v \in V}

\* Well-formed UserCreate bodies.
UserBodies ==
    [name : GoodNames, email : GoodEmails, age : GoodAges, student_id : GoodSids]

Init ==
    /\ users = EmptyTable
    /\ courses = EmptyTable
    /\ projects = EmptyTable
    /\ nextUserId = 1
    /\ nextCourseId = 1
    /\ nextProjectId = 1
    /\ slots = [r \in Slots |-> Ready]

\* Two or more POST /api/users in flight against an empty store; the slots
\* keep their responses.
NextAddUser ==
    \E r \in Slots :
        \/ Request(r, "add_user", {0}, UserBodies)
        \/ add_user(r)

SpecAddUser == Init /\ [][NextAddUser]_vars

\* ---------------------------------------------------------------- claim C1
Done(r, op) == slots[r].pc = "done" /\ slots[r].op = op

SameEmail(a, b) == a.email = b.email
SameSid(a, b) == a.student_id = b.student_id
Clash(a, b) == SameEmail(a, b) \/ SameSid(a, b)

\* r1 and r2 are the only requests that carry their email or student_id.
OnlyPair(r1, r2) ==
    \A r3 \in Slots \ {r1, r2} :
        slots[r3].op = "add_user" =>
            ~Clash(slots[r3].body, slots[r1].body) /\ ~Clash(slots[r3].body, slots[r2].body)

UsersWithEmail(e) == {i \in DOMAIN users : users[i].email = e}
UsersWithSid(s) == {i \in DOMAIN users : users[i].student_id = s}

\* C1: of two answered POST /api/users that share an email or a student_id,
\* started against a store without that value, exactly one got 201 with the
\* id of the stored user and the other 409, and the store holds exactly one
\* user with the shared value.
C1_OneCreatedOneConflict ==
    \A r1, r2 \in Slots :
        ( /\ r1 # r2
          /\ Done(r1, "add_user") /\ Done(r2, "add_user")
          /\ Clash(slots[r1].body, slots[r2].body)
          /\ OnlyPair(r1, r2) )
        => /\ {slots[r1].status, slots[r2].status} = {201, 409}
           /\ \A r \in {r1, r2} :
                 slots[r].status = 201 =>
                    /\ slots[r].out.id \in DOMAIN users
                    /\ users[slots[r].out.id] = slots[r].body
           /\ SameEmail(slots[r1].body, slots[r2].body)
                 => Cardinality(UsersWithEmail(slots[r1].body.email)) = 1
           /\ SameSid(slots[r1].body, slots[r2].body)
                 => Cardinality(UsersWithSid(slots[r1].body.student_id)) = 1

\* Two answered requests that share only the student_id: one 201, one 409.
C1_Witness ==
    \E r1, r2 \in Slots :
        /\ r1 # r2
        /\ Done(r1, "add_user") /\ Done(r2, "add_user")
        /\ SameSid(slots[r1].body, slots[r2].body)
        /\ ~SameEmail(slots[r1].body, slots[r2].body)
        /\ slots[r1].status = 201 /\ slots[r2].status = 409

\* ---------------------------------------------------------------- courses
\* The code of the k-th course an empty store is fed: k letters.
CodeOf(k) == Rep("c", k)

CourseRow(k) == [code |-> CodeOf(k), name |-> "n", credits |-> 5]

\* CourseCreate bodies: the next unused code, a code in use, an empty code.
CourseBodies ==
    {CourseRow(k) : k \in {1, nextCourseId}} \cup {[code |-> "", name |-> "n", credits |-> 5]}

\* The query strings of GET /api/courses.
CourseQueries ==
    PartialOf([limit |-> 0..MaxLimit, offset |-> 0..MaxOffset])

\* A store that holds the first k courses.
InitCourses ==
    /\ users = EmptyTable
    /\ projects = EmptyTable
    /\ nextUserId = 1
    /\ nextProjectId = 1
    /\ slots = [r \in Slots |-> Ready]
    /\ \E k \in 0..MaxCourseId :
          /\ courses = [i \in 1..k |-> CourseRow(i)]
          /\ nextCourseId = k + 1

NextCourses ==
    \/ Request(1, "create_course", {0}, CourseBodies)
    \/ Request(1, "list_courses", {0}, CourseQueries)
    \/ create_course(1)
    \/ list_courses(1)
    \/ Release(1)

SpecCourses == InitCourses /\ [][NextCourses]_vars

\* The number of stored courses with an id below i.
Rank(i) == Cardinality({j \in DOMAIN courses : j < i})

\* What GET /api/courses must answer for limit L and offset O.
IsPage(out, L, O) ==
    LET n == Cardinality(DOMAIN courses)
        len == IF n - O < 0 THEN 0 ELSE Min(L, n - O)
    IN  /\ Len(out) = len
        /\ \A k \in 1..len :
              /\ out[k].id \in DOMAIN courses
              /\ Rank(out[k].id) = O + k - 1
              /\ out[k] = Read(courses, out[k].id)

\* C9: GET /api/courses answers 200 with the courses in ascending id order,
\* the first offset skipped and at most limit returned (limit 10 and offset 0
\* when not given), and changes nothing; on courses 1..5 with limit 2 and
\* offset 1 it answers courses 2 and 3.
C9_ListCoursesPage ==
    [][\A r \in Slots :
          (Handling(r, "list_courses") /\ slots'[r].pc = "done") =>
             LET q == slots[r].body
                 L == IF "limit" \in DOMAIN q THEN q.limit ELSE 10
                 O == IF "offset" \in DOMAIN q THEN q.offset ELSE 0
             IN  /\ slots'[r].status = 200
                 /\ IsPage(slots'[r].out, L, O)
                 /\ store' = store
                 /\ (DOMAIN courses = 1..5 /\ L = 2 /\ O = 1)
                       => (Len(slots'[r].out) = 2 /\ slots'[r].out[1].id = 2
                           /\ slots'[r].out[2].id = 3)]_vars

\* The listing of five courses with limit 2 and offset 1 was answered.
C9_Witness ==
    \E r \in Slots :
        /\ Done(r, "list_courses")
        /\ DOMAIN courses = 1..5
        /\ slots[r].body = [limit |-> 2, offset |-> 1]
        /\ Len(slots[r].out) = 2

\* The default limit cut a listing of more than ten courses.
C9_WitnessDefault ==
    \E r \in Slots :
        /\ Done(r, "list_courses")
        /\ slots[r].body = << >>
        /\ Cardinality(DOMAIN courses) > 10
        /\ Len(slots[r].out) = 10

\* ------------------------------------------------------------ seeded stores
UserA == [name |-> "Ada", email |-> "ada@x.com", age |-> 30, student_id |-> Sid1]
UserB == [name |-> "Bob", email |-> "bob@x.com", age |-> 31, student_id |-> Sid2]
ProjectP == [name |-> "P", description |-> Some("d"), owner_id |-> 1]

\* The store after POST of UserA, UserB, one project of user 1 and one course.
InitSeeded ==
    /\ users = [i \in {1, 2} |-> IF i = 1 THEN UserA ELSE UserB]
    /\ projects = [i \in {1} |-> ProjectP]
    /\ courses = [i \in {1} |-> CourseRow(1)]
    /\ nextUserId = 3
    /\ nextProjectId = 2
    /\ nextCourseId = 2
    /\ slots = [r \in Slots |-> Ready]

\* An id of no user.
NoUserId == MaxUserId + 1

\* UserUpdate bodies: each field left out, null, or a value; the values are
\* free ones and ones user 2 holds.
UserPatches ==
    PartialOf([name |-> Optional({"Bob"}),
               email |-> Optional({"bob@x.com", "cat@x.com"}),
               age |-> Optional({31}),
               student_id |-> Optional({Sid2, Sid3})])

\* ProjectUpdate bodies.
ProjectPatches ==
    PartialOf([name |-> Optional({"Q"}),
               description |-> Optional({"e"}),
               owner_id |-> Optional({2, NoUserId})])

\* ---------------------------------------------------------------- claim C6
\* Sequential PATCH requests (one at a time) against the seeded store.
NextPatch ==
    \/ Request(1, "patch_user", UserIds, UserPatches)
    \/ Request(1, "patch_project", ProjectIds, ProjectPatches)
    \/ patch_user_get(1)
    \/ patch_user_commit(1)
    \/ patch_project_get(1)
    \/ patch_project_commit(1)
    \/ Release(1)

SpecPatch == InitSeeded /\ [][NextPatch]_vars

\* The step in which slot r is answered.
Answered(r, op) == slots[r].op = op /\ slots[r].pc # "done" /\ slots'[r].pc = "done"

\* Field f was sent with a value other than null.
Sent(b, f) == f \in DOMAIN b /\ b[f] # << >>

\* C6: a PATCH answered 200 sets exactly the fields sent with a non-null
\* value and leaves the other fields, the id and every other entity as they
\* were.
C6_PatchMerge ==
    [][\A r \in Slots :
          /\ (Answered(r, "patch_user") /\ slots'[r].status = 200) =>
                LET i == slots[r].id
                    b == slots[r].body
                IN  /\ DOMAIN users' = DOMAIN users
                    /\ \A f \in UserFields :
                          users'[i][f] = IF Sent(b, f) THEN b[f][1] ELSE users[i][f]
                    /\ \A j \in DOMAIN users \ {i} : users'[j] = users[j]
                    /\ slots'[r].out.id = i
                    /\ projects' = projects /\ courses' = courses
          /\ (Answered(r, "patch_project") /\ slots'[r].status = 200) =>
                LET i == slots[r].id
                    b == slots[r].body
                IN  /\ DOMAIN projects' = DOMAIN projects
                    /\ projects'[i].name = IF Sent(b, "name") THEN b.name[1] ELSE projects[i].name
                    /\ projects'[i].owner_id =
                          IF Sent(b, "owner_id") THEN b.owner_id[1] ELSE projects[i].owner_id
                    /\ projects'[i].description =
                          IF Sent(b, "description") THEN b.description ELSE projects[i].description
                    /\ \A j \in DOMAIN projects \ {i} : projects'[j] = projects[j]
                    /\ slots'[r].out.id = i
                    /\ users' = users /\ courses' = courses]_vars

\* A PATCH of a project with a name and a null description was answered 200
\* and the description is still there.
C6_Witness ==
    \E r \in Slots :
        /\ Done(r, "patch_project")
        /\ slots[r].status = 200
        /\ slots[r].body = [name |-> Some("Q"), description |-> None]
        /\ projects[slots[r].id].name = "Q"
        /\ projects[slots[r].id].description = Some("d")

\* ---------------------------------------------------------------- claim C7
\* UserCreate bodies for PUT: free values and values user 2 holds.
UserPuts ==
    [name : {"Ada", "Bob"}, email : {"bob@x.com", "cat@x.com"}, age : {30, 31},
     student_id : {Sid2, Sid3}]

\* ProjectCreate bodies for PUT: the description left out, null or a value.
ProjectPuts ==
    {b \in PartialOf([name |-> {"P", "Q"}, description |-> Optional({"e"}),
                      owner_id |-> {1, 2, NoUserId}]) :
        {"name", "owner_id"} \subseteq DOMAIN b}

\* Sequential PUT requests against the seeded store.
NextPut ==
    \/ Request(1, "put_user", UserIds \cup {NoUserId}, UserPuts)
    \/ Request(1, "put_project", ProjectIds, ProjectPuts)
    \/ put_user_get(1)
    \/ put_user_commit(1)
    \/ put_project_get(1)
    \/ put_project_commit(1)
    \/ Release(1)

SpecPut == InitSeeded /\ [][NextPut]_vars

\* C7: a PUT answered 200 leaves the entity with every field of the create
\* schema equal to the payload, an omitted description null, the id and all
\* other entities unchanged; a PUT on an id that does not exist is answered
\* 404 and nothing is created or changed.
C7_PutReplace ==
    [][\A r \in Slots :
          /\ (Answered(r, "put_user") /\ slots'[r].status = 200) =>
                LET i == slots[r].id
                    b == slots[r].body
                IN  /\ DOMAIN users' = DOMAIN users
                    /\ \A f \in UserFields : users'[i][f] = b[f]
                    /\ \A j \in DOMAIN users \ {i} : users'[j] = users[j]
                    /\ slots'[r].out.id = i
                    /\ projects' = projects /\ courses' = courses
          /\ (Answered(r, "put_project") /\ slots'[r].status = 200) =>
                LET i == slots[r].id
                    b == slots[r].body
                IN  /\ DOMAIN projects' = DOMAIN projects
                    /\ projects'[i].name = b.name
                    /\ projects'[i].owner_id = b.owner_id
                    /\ projects'[i].description =
                          IF "description" \in DOMAIN b THEN b.description ELSE << >>
                    /\ \A j \in DOMAIN projects \ {i} : projects'[j] = projects[j]
                    /\ slots'[r].out.id = i
                    /\ users' = users /\ courses' = courses
          /\ (Answered(r, "put_user") /\ slots[r].pc = "handling"
                  /\ slots[r].id \notin DOMAIN users)
                => (slots'[r].status = 404 /\ store' = store)
          /\ (Answered(r, "put_project") /\ slots[r].pc = "handling"
                  /\ slots[r].id \notin DOMAIN projects)
                => (slots'[r].status = 404 /\ store' = store)]_vars

\* A PUT of project 1 without a description was answered 200 and the
\* description it had is gone.
C7_Witness ==
    \E r \in Slots :
        /\ Done(r, "put_project")
        /\ slots[r].status = 200
        /\ "description" \notin DOMAIN slots[r].body
        /\ slots[r].body.name = "Q"
        /\ projects[slots[r].id] = [name |-> "Q", description |-> None,
                                    owner_id |-> slots[r].body.owner_id]

\* ---------------------------------------------------------------- claim C2
\* UserCreate bodies that differ in the unique columns only.
UserBodiesKeys ==
    [name : {"Ada"}, email : GoodEmails, age : {30}, student_id : GoodSids]

\* UserUpdate bodies that set the unique columns.
UserPatchesKeys ==
    PartialOf([email |-> {Some(e) : e \in GoodEmails},
               student_id |-> {Some(x) : x \in GoodSids}])

\* POST, PATCH and PUT on users and POST on courses by two clients at once,
\* from the empty store.
NextUnique ==
    \E r \in Racers :
        \/ Request(r, "add_user", {0}, UserBodiesKeys)
        \/ Request(r, "patch_user", UserIds, UserPatchesKeys)
        \/ Request(r, "put_user", UserIds, UserBodiesKeys)
        \/ Request(r, "create_course", {0}, {CourseRow(1), CourseRow(2)})
        \/ add_user(r)
        \/ patch_user_get(r)
        \/ patch_user_commit(r)
        \/ put_user_get(r)
        \/ put_user_commit(r)
        \/ create_course(r)
        \/ Release(r)

SpecUnique == Init /\ [][NextUnique]_vars

\* The value a PATCH or PUT body b assigns to field f, as an optional.
Assigned(op, b, f) ==
    IF op = "patch_user"
    THEN (IF Sent(b, f) THEN b[f] ELSE << >>)
    ELSE << b[f] >>

\* The request in slot r changes the loaded user's f to the value another
\* stored user holds.
TakesAnothers(r, f) ==
    LET a == Assigned(slots[r].op, slots[r].body, f)
    IN  /\ a # << >>
        /\ a[1] # slots[r].snap[f]
        /\ \E j \in DOMAIN users \ {slots[r].id} : users[j][f] = a[1]

NoDuplicates ==
    /\ \A i, j \in DOMAIN users :
          i # j => users[i].email # users[j].email
                   /\ users[i].student_id # users[j].student_id
    /\ \A i, j \in DOMAIN courses : i # j => courses[i].code # courses[j].code

ProjectBodiesOwner == {[name |-> "P", owner_id |-> o] : o \in UserIds}

\* A UserUpdate body that changes a plain field and takes UserB's email.
UserPatchesMixed == {[name |-> Some("Zed"), email |-> Some("bob@x.com")]}

\* A UserCreate body for PUT: the unique columns of UserB, a new name.
UserPutsMixed == {[UserB EXCEPT !.name = "Zed"]}

\* ProjectUpdate bodies: a new name and an owner that may be no user.
ProjectPatchesMixed ==
    {[name |-> Some("Q"), owner_id |-> Some(o)] : o \in {1, NoUserId}}

\* ProjectCreate bodies for PUT.
ProjectPutsMixed ==
    {[name |-> "Q", owner_id |-> o] : o \in {1, NoUserId}}

\* Every mutating route, one request at a time in slot 1, while slot 2
\* deletes users concurrently.
Next ==
    \/ Request(1, "add_user", {0}, {UserA, UserB})
    \/ Request(1, "patch_user", UserIds, UserPatchesMixed)
    \/ Request(1, "put_user", UserIds, UserPutsMixed)
    \/ Request(1, "create_course", {0}, {CourseRow(1)})
    \/ Request(1, "create_project", {0}, ProjectBodiesOwner)
    \/ Request(1, "create_user_project", UserIds, {[name |-> "P"]})
    \/ Request(1, "patch_project", ProjectIds, ProjectPatchesMixed)
    \/ Request(1, "put_project", ProjectIds, ProjectPutsMixed)
    \/ Request(2, "delete_user", UserIds, {<< >>})
    \/ add_user(1)
    \/ patch_user_get(1)
    \/ patch_user_commit(1)
    \/ put_user_get(1)
    \/ put_user_commit(1)
    \/ create_course(1)
    \/ create_project_get(1)
    \/ create_project_commit(1)
    \/ create_user_project_get(1)
    \/ create_user_project_commit(1)
    \/ patch_project_get(1)
    \/ patch_project_commit(1)
    \/ put_project_get(1)
    \/ put_project_commit(1)
    \/ delete_user_get(2)
    \/ delete_user_commit(2)
    \/ Release(1)
    \/ Release(2)

Spec == Init /\ [][Next]_vars

\* ------------------------------------------------------ claims C3, C4, C5
\* The handler in slot r starts with slots[r] and takes a step.
Starts(r, op) ==
    slots[r].op = op /\ slots[r].pc = "handling" /\ slots'[r] # slots[r]

\* C3: a project creation (either route) whose owner is no stored user is
\* answered 404 and the store is left as it was.
C3_NoOwner404 ==
    [][\A r \in Slots :
          /\ (Starts(r, "create_project") /\ slots[r].body.owner_id \notin DOMAIN users)
                => (slots'[r].pc = "done" /\ slots'[r].status = 404 /\ store' = store)
          /\ (Starts(r, "create_user_project") /\ slots[r].id \notin DOMAIN users)
                => (slots'[r].pc = "done" /\ slots'[r].status = 404 /\ store' = store)]_vars

\* The nested route was answered 404 for an id of no user while a user, a
\* project and a course exist.
C3_Witness ==
    \E r \in Slots :
        /\ Done(r, "create_user_project") /\ slots[r].status = 404
        /\ slots[r].id \notin DOMAIN users
        /\ DOMAIN users # {} /\ DOMAIN projects # {} /\ DOMAIN courses # {}

\* The projects of user i.
OwnedBy(i) == {k \in DOMAIN projects : projects[k].owner_id = i}

\* C4: the delete of a stored user is answered 204 and removes that user and
\* exactly the projects it owns; the other users, the other projects and
\* the courses stay; a delete of an id that is no user is answered 404 and
\* changes nothing.
C4_DeleteCascade ==
    [][\A r \in Slots :
          /\ (Answered(r, "delete_user") /\ slots[r].pc = "loaded"
                 /\ slots[r].id \in DOMAIN users) =>
                LET i == slots[r].id
                IN  /\ slots'[r].status = 204
                    /\ DOMAIN users' = DOMAIN users \ {i}
                    /\ \A j \in DOMAIN users' : users'[j] = users[j]
                    /\ DOMAIN projects' = DOMAIN projects \ OwnedBy(i)
                    /\ \A k \in DOMAIN projects' : projects'[k] = projects[k]
                    /\ courses' = courses
          /\ (Starts(r, "delete_user") /\ slots[r].id \notin DOMAIN users)
                => (slots'[r].pc = "done" /\ slots'[r].status = 404 /\ store' = store)]_vars

\* A delete was answered 204, and a project of the other user is still there
\* although two projects had been created.
C4_Witness ==
    \E r \in Slots :
        /\ Done(r, "delete_user") /\ slots[r].status = 204
        /\ slots[r].id \notin DOMAIN users
        /\ nextProjectId = 3
        /\ Cardinality(DOMAIN projects) = 1
        /\ DOMAIN users # {}

\* C5: every stored project's owner_id is the id of a stored user.
C5_NoOrphan ==
    \A k \in DOMAIN projects : projects[k].owner_id \in DOMAIN users

\* A project creation passed the owner check, the owner was deleted, and the
\* commit was refused; another project is stored.
C5_Witness ==
    \E r \in Slots :
        /\ Done(r, "create_project") /\ slots[r].status = 409
        /\ slots[r].body.owner_id \notin DOMAIN users
        /\ DOMAIN projects # {}

\* ---------------------------------------------------------------- claim C8
MutatingOps ==
    {"add_user", "patch_user", "put_user", "create_course", "create_project",
     "create_user_project", "patch_project", "put_project"}

\* C8: a POST, PATCH or PUT answered 409 leaves users, courses and projects
\* exactly as they were before the call's commit: no row added, no field of
\* the target changed.
C8_ConflictRollsBack ==
    [][\A r \in Slots :
          (slots[r].op \in MutatingOps /\ slots[r].pc # "done"
              /\ slots'[r].pc = "done" /\ slots'[r].status = 409)
          => (users' = users /\ courses' = courses /\ projects' = projects)]_vars

\* A PATCH that carried a new name and another user's email was answered
\* 409, and the target does not have the new name.
C8_Witness ==
    \E r \in Slots :
        /\ Done(r, "patch_user") /\ slots[r].status = 409
        /\ slots[r].body = [name |-> Some("Zed"), email |-> Some("bob@x.com")]
        /\ slots[r].id \in DOMAIN users
        /\ users[slots[r].id].name # "Zed"

\* --------------------------------------------------------------- claim C10
\* UserCreate bodies, fields out of range included.
UserBodiesAny ==
    [name : {"Ada"} \cup BadNames, email : {"ada@x.com"},
     age : GoodAges \cup BadAges, student_id : {Sid1} \cup BadSids]

\* UserUpdate bodies that set one field, in or out of range.
UserPatchesAny ==
    {[name |-> Some(n)] : n \in {"Bob"} \cup BadNames}
        \cup {[age |-> Some(a)] : a \in {31} \cup BadAges}
        \cup {[student_id |-> Some(x)] : x \in {Sid2} \cup BadSids}

\* ProjectCreate and ProjectUpdate bodies, the name in or out of range.
ProjectBodiesAny ==
    {[name |-> n, owner_id |-> 1] : n \in GoodProjectNames \cup BadProjectNames}

ProjectBodiesForUserAny ==
    {[name |-> n] : n \in GoodProjectNames \cup BadProjectNames}

ProjectPatchesAny ==
    {[name |-> Some(n)] : n \in GoodProjectNames \cup BadProjectNames}

\* Every route that takes a user or project body, one request at a time.
NextValid ==
    \/ Request(1, "add_user", {0}, UserBodiesAny)
    \/ Request(1, "put_user", UserIds, UserBodiesAny)
    \/ Request(1, "patch_user", UserIds, UserPatchesAny)
    \/ Request(1, "create_project", {0}, ProjectBodiesAny)
    \/ Request(1, "create_user_project", UserIds, ProjectBodiesForUserAny)
    \/ Request(1, "put_project", ProjectIds, ProjectBodiesAny)
    \/ Request(1, "patch_project", ProjectIds, ProjectPatchesAny)
    \/ add_user(1)
    \/ put_user_get(1)
    \/ put_user_commit(1)
    \/ patch_user_get(1)
    \/ patch_user_commit(1)
    \/ create_project_get(1)
    \/ create_project_commit(1)
    \/ create_user_project_get(1)
    \/ create_user_project_commit(1)
    \/ put_project_get(1)
    \/ put_project_commit(1)
    \/ patch_project_get(1)
    \/ patch_project_commit(1)
    \/ Release(1)

SpecValid == Init /\ [][NextValid]_vars

\* C10: every stored user has a name of 1..100 characters, an age in 0..150
\* and a student_id of "S" and seven digits, and every stored project a name
\* of 1..255 characters, because a body outside these ranges is answered 422
\* by POST, PUT and PATCH alike.
C10_StoredFieldsValid ==
    /\ \A i \in DOMAIN users :
          /\ Len(users[i].name) \in 1..100
          /\ users[i].age \in 0..150
          /\ Len(users[i].student_id) = 8
          /\ users[i].student_id[1] = "S"
          /\ \A k \in 2..Len(users[i].student_id) : users[i].student_id[k] \in Digits
    /\ \A i \in DOMAIN projects : Len(projects[i].name) \in 1..255

====
